---------------------------- MODULE Spec2Model ----------------------------
(***************************************************************************)
(* Model of the analytics engine of InvestingAnalytics (src/src/analysis.py)*)
(* and of the way src/app.py calls it.                                      *)
(*                                                                          *)
(* Numbers.  A float is modelled as an exact extended rational <<n, d>>     *)
(* with d >= 0 in lowest terms: <<n, d>> with d > 0 is n/d, <<1, 0>> is     *)
(* +Inf, <<-1, 0>> is -Inf and <<0, 0>> is NaN (also a missing cell of a    *)
(* pandas frame).  Rounding error and signed zeros are not modelled.        *)
(*                                                                          *)
(* Square roots.  A quantity the code obtains through np.sqrt (a            *)
(* volatility, a Sharpe ratio) is stored through the strictly increasing    *)
(* bijection Phi(x) = sign(x) * x^2 of the extended reals, which keeps      *)
(* order, equality, zero, the infinities and NaN, and so keeps argmax and   *)
(* argmin.                                                                  *)
(***************************************************************************)
EXTENDS Integers, Sequences, FiniteSets, TLC

(***************************************************************************)
(* Extended rational arithmetic (IEEE-754 special values, exact otherwise)  *)
(***************************************************************************)
AbsI(x) == IF x < 0 THEN -x ELSE x

SignI(x) == IF x < 0 THEN -1 ELSE IF x > 0 THEN 1 ELSE 0

RECURSIVE Gcd(_, _)
Gcd(a, b) == IF b = 0 THEN a ELSE Gcd(b, a % b)

Norm(n, d) ==
    IF d = 0 THEN <<SignI(n), 0>>
    ELSE LET g == Gcd(AbsI(n), AbsI(d))
             s == IF d < 0 THEN -1 ELSE 1
         IN  <<(s * n) \div g, (s * d) \div g>>

Q(n, d) == Norm(n, d)

NaN == <<0, 0>>
PosInf == <<1, 0>>
NegInf == <<-1, 0>>
Zero == <<0, 1>>
One == <<1, 1>>

IsNaN(x) == x = NaN
IsFinite(x) == x[2] > 0

Neg(a) == <<-a[1], a[2]>>

Add(a, b) ==
    IF a[2] = 0 /\ b[2] = 0
    THEN (IF a = b THEN a ELSE NaN)
    ELSE Norm(a[1] * b[2] + b[1] * a[2], a[2] * b[2])

Sub(a, b) == Add(a, Neg(b))

Mul(a, b) == Norm(a[1] * b[1], a[2] * b[2])

Div(a, b) ==
    IF b[1] < 0
    THEN Norm(-(a[1] * b[2]), -(a[2] * b[1]))
    ELSE Norm(a[1] * b[2], a[2] * b[1])

AbsQ(a) == <<AbsI(a[1]), a[2]>>

\* a < b as floats compare: every comparison with NaN is false
Lt(a, b) ==
    IF IsNaN(a) \/ IsNaN(b) THEN FALSE
    ELSE IF a[2] = 0 /\ b[2] = 0 THEN a[1] < b[1]
    ELSE IF a[2] = 0 THEN a[1] < 0
    ELSE IF b[2] = 0 THEN b[1] > 0
    ELSE LET g == Gcd(a[2], b[2])
         IN  a[1] * (b[2] \div g) < b[1] * (a[2] \div g)

Le(a, b) == ~IsNaN(a) /\ ~IsNaN(b) /\ ~Lt(b, a)

\* Phi(x) = sign(x) * x^2
Phi(a) == Mul(a, AbsQ(a))

\* Phi(np.sqrt(x)): x itself for x >= 0 (and +Inf), NaN for x < 0 and NaN
PhiSqrt(x) == IF IsNaN(x) \/ x[1] < 0 THEN NaN ELSE x

RECURSIVE SumSeq(_)
SumSeq(s) == IF s = <<>> THEN Zero ELSE Add(Head(s), SumSeq(Tail(s)))

RECURSIVE ProdSeq(_)
ProdSeq(s) == IF s = <<>> THEN One ELSE Mul(Head(s), ProdSeq(Tail(s)))

Range(s) == {s[k] : k \in DOMAIN s}

(***************************************************************************)
(* Frames and series (pandas.DataFrame / pandas.Series of floats)           *)
(*   frame : [columns |-> sequence of asset names,                          *)
(*            index   |-> sequence of row labels (dates, as numbers),       *)
(*            data    |-> sequence of columns, each a sequence of cells]    *)
(*   series: [index |-> sequence of keys, values |-> sequence of cells]     *)
(***************************************************************************)
Frame(cols, idx, data) == [columns |-> cols, index |-> idx, data |-> data]

Series(idx, vals) == [index |-> idx, values |-> vals]

EmptyFrame == Frame(<<>>, <<>>, <<>>)

EmptySeries == Series(<<>>, <<>>)

NCols(f) == Len(f.columns)

NRows(f) == Len(f.index)

\* Series.dropna / the skipna=True default of the pandas reductions
SkipNa(col) == SelectSeq(col, LAMBDA x : ~IsNaN(x))

\* Series.mean(): NaN cells skipped; the mean of no cell is NaN (0/0)
Mean(col) == LET v == SkipNa(col) IN Div(SumSeq(v), Q(Len(v), 1))

\* Series.var(ddof=1): NaN cells skipped; fewer than two cells give NaN
Variance(col) ==
    LET v == SkipNa(col)
        m == Mean(col)
        dev == [k \in DOMAIN v |-> Mul(Sub(v[k], m), Sub(v[k], m))]
    IN  IF Len(v) < 2 THEN NaN ELSE Div(SumSeq(dev), Q(Len(v) - 1, 1))

\* Rows of a pair of columns in which both cells are present
PairRows(x, y) == SelectSeq([t \in DOMAIN x |-> t], LAMBDA t : ~IsNaN(x[t]) /\ ~IsNaN(y[t]))

\* One entry of DataFrame.cov(): pairwise complete rows, ddof = 1
Cov(x, y) ==
    LET rows == PairRows(x, y)
        n == Len(rows)
        mx == Div(SumSeq([k \in DOMAIN rows |-> x[rows[k]]]), Q(n, 1))
        my == Div(SumSeq([k \in DOMAIN rows |-> y[rows[k]]]), Q(n, 1))
        prod == [k \in DOMAIN rows |-> Mul(Sub(x[rows[k]], mx), Sub(y[rows[k]], my))]
    IN  IF n < 2 THEN NaN ELSE Div(SumSeq(prod), Q(n - 1, 1))

\* Variant: the price ratio, without the "- 1"
pct_change_ratio(f) ==
    Frame(f.columns, f.index,
          [c \in DOMAIN f.data |->
              [t \in DOMAIN f.data[c] |->
                  IF t = 1 THEN NaN ELSE Div(f.data[c][t], f.data[c][t - 1])]])

\* DataFrame.pct_change(): data / data.shift(1) - 1, the first row has no
\* predecessor.  (Missing prices occur only before an asset's first quote,
\* where the fill_method default has nothing to carry forward.)
pct_change(f) ==
    Frame(f.columns, f.index,
          [c \in DOMAIN f.data |->
              [t \in DOMAIN f.data[c] |->
                  IF t = 1 THEN NaN
                  ELSE Sub(Div(f.data[c][t], f.data[c][t - 1]), One)]])

RECURSIVE KeptRows(_, _)
KeptRows(f, t) ==
    IF t > NRows(f) THEN <<>>
    ELSE IF \A c \in DOMAIN f.data : ~IsNaN(f.data[c][t])
         THEN <<t>> \o KeptRows(f, t + 1)
         ELSE KeptRows(f, t + 1)

\* DataFrame.dropna(): drops every row that holds a NaN in any column
dropna(f) ==
    LET keep == KeptRows(f, 1)
    IN  Frame(f.columns, [k \in DOMAIN keep |-> f.index[keep[k]]],
              [c \in DOMAIN f.data |-> [k \in DOMAIN keep |-> f.data[c][keep[k]]]])

\* Variant: the undefined first row is kept
calculate_returns_keepna(prices) == pct_change(prices)

calculate_returns(prices) == dropna(pct_change(prices))

RECURSIVE CumProdAcc(_, _)
CumProdAcc(col, k) ==
    IF k = 0 THEN One
    ELSE Mul(CumProdAcc(col, k - 1), IF IsNaN(col[k]) THEN One ELSE col[k])

\* Series.cumprod(): NaN cells are skipped (they stay NaN, the product runs on)
CumProd(col) ==
    [k \in DOMAIN col |-> IF IsNaN(col[k]) THEN NaN ELSE CumProdAcc(col, k)]

\* Variant: the running product of the returns themselves
calculate_cumulative_returns_raw(returns) ==
    Frame(returns.columns, returns.index,
          [c \in DOMAIN returns.data |-> CumProd(returns.data[c])])

calculate_cumulative_returns(returns) ==
    Frame(returns.columns, returns.index,
          [c \in DOMAIN returns.data |->
              CumProd([t \in DOMAIN returns.data[c] |-> Add(One, returns.data[c][t])])])

\* Variant: the gross ratio last / first
calculate_total_return_gross(prices) ==
    IF NRows(prices) = 0 THEN [raised |-> "IndexError", value |-> EmptySeries]
    ELSE [raised |-> "none",
          value |-> Series(prices.columns,
                      [c \in DOMAIN prices.data |->
                          Div(prices.data[c][NRows(prices)], prices.data[c][1])])]

\* prices.iloc[-1] / prices.iloc[0] - 1; iloc raises IndexError on a frame
\* without rows
calculate_total_return(prices) ==
    IF NRows(prices) = 0 THEN [raised |-> "IndexError", value |-> EmptySeries]
    ELSE [raised |-> "none",
          value |-> Series(prices.columns,
                      [c \in DOMAIN prices.data |->
                          Sub(Div(prices.data[c][NRows(prices)], prices.data[c][1]), One)])]

TradingDays == 252

\* Variant: assets whose volatility is NaN are dropped from the result
calculate_volatility_dropna(returns, annualized) ==
    LET vol == [c \in DOMAIN returns.data |-> PhiSqrt(Variance(returns.data[c]))]
        keep == SelectSeq([c \in DOMAIN vol |-> c], LAMBDA c : ~IsNaN(vol[c]))
    IN  Series([k \in DOMAIN keep |-> returns.columns[keep[k]]],
               [k \in DOMAIN keep |->
                   IF annualized THEN Mul(vol[keep[k]], Q(TradingDays, 1))
                   ELSE vol[keep[k]]])

\* returns.std() [* np.sqrt(periods_per_year)], stored as Phi of the value:
\* Phi(std * sqrt(p)) = var * p
calculate_volatility(returns, annualized) ==
    Series(returns.columns,
           [c \in DOMAIN returns.data |->
               LET vol == PhiSqrt(Variance(returns.data[c]))
               IN  IF annualized THEN Mul(vol, Q(TradingDays, 1)) ELSE vol])

(***************************************************************************)
(* Risk metrics on prices                                                   *)
(***************************************************************************)
MaxQ(a, b) == IF Lt(a, b) THEN b ELSE a

MinQ(a, b) == IF Lt(b, a) THEN b ELSE a

RECURSIVE CumMaxAcc(_, _)
\* The largest present cell among the first k cells, NaN if there is none
CumMaxAcc(col, k) ==
    IF k = 0 THEN NaN
    ELSE LET m == CumMaxAcc(col, k - 1)
         IN  IF IsNaN(col[k]) THEN m
             ELSE IF IsNaN(m) THEN col[k]
             ELSE MaxQ(m, col[k])

\* Series.cummax(): NaN cells are skipped (they stay NaN, the maximum runs on)
cummax(col) ==
    [k \in DOMAIN col |-> IF IsNaN(col[k]) THEN NaN ELSE CumMaxAcc(col, k)]

RECURSIVE MinSeq(_)
MinSeq(s) == IF Len(s) = 1 THEN s[1] ELSE MinQ(Head(s), MinSeq(Tail(s)))

\* Series.min(): NaN cells skipped; the minimum of no cell is NaN
MinSkipNa(col) == LET v == SkipNa(col) IN IF v = <<>> THEN NaN ELSE MinSeq(v)

\* (prices - rolling_max) / rolling_max with rolling_max = prices.cummax()
calculate_drawdown_series(prices) ==
    Frame(prices.columns, prices.index,
          [c \in DOMAIN prices.data |->
              LET rolling_max == cummax(prices.data[c])
              IN  [t \in DOMAIN prices.data[c] |->
                      Div(Sub(prices.data[c][t], rolling_max[t]), rolling_max[t])]])

\* Variant: the ratio prices / rolling_max, without subtracting the peak
calculate_max_drawdown_ratio(prices) ==
    Series(prices.columns,
           [c \in DOMAIN prices.data |->
               LET rolling_max == cummax(prices.data[c])
               IN  MinSkipNa([t \in DOMAIN prices.data[c] |->
                       Div(prices.data[c][t], rolling_max[t])])])

\* drawdown.min()
calculate_max_drawdown(prices) ==
    Series(prices.columns,
           [c \in DOMAIN prices.data |->
               MinSkipNa(calculate_drawdown_series(prices).data[c])])

(***************************************************************************)
(* Return and risk metrics on returns.  An operation that can raise returns *)
(* [raised |-> name of the exception or "none", value |-> its result].      *)
(*                                                                          *)
(* Powers and logarithms.  An annualized return b^(252/n) - 1 is stored as  *)
(* its base b, and a log return ln(r) as the ratio r: both maps are         *)
(* strictly increasing, so sign, zero, the infinities and NaN are kept (an  *)
(* annualized return is positive iff its base exceeds 1).                   *)
(***************************************************************************)
\* np.log(prices / prices.shift(1)).dropna(); the log of a negative ratio is
\* NaN, the log of 0 is -Inf (stored as 0)
calculate_log_returns(prices) ==
    dropna(Frame(prices.columns, prices.index,
                 [c \in DOMAIN prices.data |->
                     [t \in DOMAIN prices.data[c] |->
                         IF t = 1 THEN NaN
                         ELSE LET r == Div(prices.data[c][t], prices.data[c][t - 1])
                              IN  IF r[1] < 0 THEN NaN ELSE r]]))

\* The base b with cumulative ** (periods_per_year / total_periods) = b ** the
\* same exponent, b >= 0 unless the exponent is an odd integer
PowerBase(cumulative, total_periods) ==
    LET whole == TradingDays % total_periods = 0
        odd == whole /\ (TradingDays \div total_periods) % 2 = 1
    IN  IF odd THEN cumulative
        ELSE IF whole THEN AbsQ(cumulative)
        ELSE IF cumulative = NegInf THEN PosInf
        ELSE IF cumulative[1] < 0 THEN NaN
        ELSE cumulative

\* (1 + returns).prod() ** (periods_per_year / total_periods) - 1; the
\* quotient of the two Python integers raises when there is no return row
calculate_annualized_return(returns) ==
    LET total_periods == NRows(returns)
    IN  IF total_periods = 0
        THEN [raised |-> "ZeroDivisionError", value |-> EmptySeries]
        ELSE [raised |-> "none",
              value |-> Series(returns.columns,
                          [c \in DOMAIN returns.data |->
                              LET v == SkipNa(returns.data[c])
                              IN  PowerBase(ProdSeq([k \in DOMAIN v |-> Add(One, v[k])]),
                                            total_periods)])]

\* The mean of the squares of the returns below target (Phi of its root)
DownsideMeanSquare(col, target) ==
    LET below == SelectSeq(col, LAMBDA x : Lt(x, target))
    IN  Mean([k \in DOMAIN below |-> Mul(below[k], below[k])])

calculate_downside_deviation(returns, target, annualized) ==
    Series(returns.columns,
           [c \in DOMAIN returns.data |->
               LET downside_dev == PhiSqrt(DownsideMeanSquare(returns.data[c], target))
               IN  IF annualized THEN Mul(downside_dev, Q(TradingDays, 1))
                   ELSE downside_dev])

\* floor of a rational >= 0
Floor(x) == x[1] \div x[2]

\* Series.quantile(q), linear interpolation between the two nearest order
\* statistics of the present cells; NaN when there is none
Quantile(col, q) ==
    LET v == SortSeq(SkipNa(col), Lt)
        n == Len(v)
        virtual == Mul(q, Q(n - 1, 1))
        lo == Floor(virtual)
        hi == IF lo + 1 < n THEN lo + 1 ELSE lo
        t == Sub(virtual, Q(lo, 1))
        a == v[lo + 1]
        b == v[hi + 1]
    IN  IF n = 0 THEN NaN
        ELSE IF Le(Q(1, 2), t) THEN Sub(b, Mul(Sub(b, a), Sub(One, t)))
        ELSE Add(a, Mul(Sub(b, a), t))

\* -(mean + z_score * std) with z_score = norm.ppf(1 - confidence): kept as
\* its three ingredients (the variance for the standard deviation)
ParametricVaR(col, confidence) ==
    [mean |-> Mean(col), ppf |-> Sub(One, confidence), var |-> Variance(col)]

\* Variant: an unrecognized method name falls back to the historical method
calculate_var_fallback(returns, confidence, method) ==
    IF method = "parametric"
    THEN [raised |-> "none",
          value |-> Series(returns.columns,
                      [c \in DOMAIN returns.data |->
                          ParametricVaR(returns.data[c], confidence)])]
    ELSE [raised |-> "none",
          value |-> Series(returns.columns,
                      [c \in DOMAIN returns.data |->
                          Neg(Quantile(returns.data[c], Sub(One, confidence)))])]

calculate_var(returns, confidence, method) ==
    IF method = "historical"
    THEN [raised |-> "none",
          value |-> Series(returns.columns,
                      [c \in DOMAIN returns.data |->
                          Neg(Quantile(returns.data[c], Sub(One, confidence)))])]
    ELSE IF method = "parametric"
    THEN [raised |-> "none",
          value |-> Series(returns.columns,
                      [c \in DOMAIN returns.data |->
                          ParametricVaR(returns.data[c], confidence)])]
    ELSE [raised |-> "ValueError", value |-> EmptySeries]

calculate_cvar(returns, confidence) ==
    LET var == calculate_var(returns, confidence, "historical").value
    IN  Series(returns.columns,
               [c \in DOMAIN returns.data |->
                   Neg(Mean(SelectSeq(returns.data[c],
                                      LAMBDA x : Le(x, Neg(var.values[c])))))])

(***************************************************************************)
(* Risk-adjusted ratios.  A ratio with a standard deviation or a root mean  *)
(* square below the line is stored as Phi of its value.                     *)
(***************************************************************************)
\* Variant: the ratio of a constant-return asset is reported as 0
calculate_sharpe_ratio_zero(returns, risk_free_rate, annualized) ==
    Series(returns.columns,
           [c \in DOMAIN returns.data |->
               LET daily_rf == Div(risk_free_rate, Q(TradingDays, 1))
                   col == returns.data[c]
                   mean_excess == Mean([t \in DOMAIN col |-> Sub(col[t], daily_rf)])
                   std_dev == PhiSqrt(Variance(col))
                   sharpe == IF std_dev = Zero THEN Zero
                             ELSE Div(Phi(mean_excess), std_dev)
               IN  IF annualized THEN Mul(sharpe, Q(TradingDays, 1)) ELSE sharpe])

\* (returns - daily_rf).mean() / returns.std() [* np.sqrt(periods_per_year)]
calculate_sharpe_ratio(returns, risk_free_rate, annualized) ==
    Series(returns.columns,
           [c \in DOMAIN returns.data |->
               LET daily_rf == Div(risk_free_rate, Q(TradingDays, 1))
                   col == returns.data[c]
                   mean_excess == Mean([t \in DOMAIN col |-> Sub(col[t], daily_rf)])
                   std_dev == PhiSqrt(Variance(col))
                   sharpe == Div(Phi(mean_excess), std_dev)
               IN  IF annualized THEN Mul(sharpe, Q(TradingDays, 1)) ELSE sharpe])

calculate_sortino_ratio(returns, risk_free_rate, target, annualized) ==
    LET downside_dev == calculate_downside_deviation(returns, target, FALSE)
    IN  Series(returns.columns,
               [c \in DOMAIN returns.data |->
                   LET daily_rf == Div(risk_free_rate, Q(TradingDays, 1))
                       excess_returns == Sub(Mean(returns.data[c]), daily_rf)
                       sortino == Div(Phi(excess_returns), downside_dev.values[c])
                   IN  IF annualized THEN Mul(sortino, Q(TradingDays, 1)) ELSE sortino])

\* A cell of the Calmar ratio: the annualized return (as its base) over the
\* absolute maximum drawdown
CalmarCell(ann_return, max_dd) == [ann |-> ann_return, dd |-> max_dd]

\* A number with the sign, the zero, the infinities and the NaN of the cell
CalmarClass(cell) == Div(Sub(cell.ann, One), cell.dd)

\* ann_return / abs(max_dd); prices and returns carry the same asset columns
calculate_calmar_ratio(prices, returns) ==
    LET ann_return == calculate_annualized_return(returns)
        max_dd == calculate_max_drawdown(prices)
    IN  IF ann_return.raised # "none" THEN ann_return
        ELSE [raised |-> "none",
              value |-> Series(returns.columns,
                          [c \in DOMAIN returns.data |->
                              CalmarCell(ann_return.value.values[c],
                                         AbsQ(max_dd.values[c]))])]

\* returns[returns > threshold].sum() / abs(returns[returns < threshold].sum())
calculate_omega_ratio(returns, threshold) ==
    Series(returns.columns,
           [c \in DOMAIN returns.data |->
               LET gains == SumSeq(SelectSeq(returns.data[c], LAMBDA x : Lt(threshold, x)))
                   losses == AbsQ(SumSeq(SelectSeq(returns.data[c],
                                                   LAMBDA x : Lt(x, threshold))))
               IN  Div(gains, losses)])

(***************************************************************************)
(* Market metrics and rolling metrics.  The market series is a sequence of  *)
(* returns on the dates of the return panel (the caller aligns them).       *)
(***************************************************************************)
\* returns[col].cov(market_returns) / market_returns.var()
calculate_beta(returns, market_returns) ==
    Series(returns.columns,
           [c \in DOMAIN returns.data |->
               Div(Cov(returns.data[c], market_returns), Variance(market_returns))])

\* The window of `window` rows ending at row t, as the rolling functions see
\* it: an infinite cell counts as missing
TrailingWindow(col, t, window) ==
    LET rows == SubSeq(col, t - window + 1, t)
    IN  [k \in DOMAIN rows |-> IF IsFinite(rows[k]) THEN rows[k] ELSE NaN]

Complete(rows) == \A k \in DOMAIN rows : ~IsNaN(rows[k])

\* Variant: an expanding window, all rows up to t once `window` rows exist
calculate_rolling_volatility_expanding(returns, window, annualized) ==
    Frame(returns.columns, returns.index,
          [c \in DOMAIN returns.data |->
              [t \in DOMAIN returns.data[c] |->
                  LET rows == TrailingWindow(returns.data[c], t, t)
                      rolling_vol == PhiSqrt(Variance(rows))
                  IN  IF t < window \/ ~Complete(rows) THEN NaN
                      ELSE IF annualized THEN Mul(rolling_vol, Q(TradingDays, 1))
                      ELSE rolling_vol]])

\* returns.rolling(window).std() [* np.sqrt(252)]: a row has a value once the
\* window holds `window` observations (min_periods = window)
calculate_rolling_volatility(returns, window, annualized) ==
    Frame(returns.columns, returns.index,
          [c \in DOMAIN returns.data |->
              [t \in DOMAIN returns.data[c] |->
                  IF t < window THEN NaN
                  ELSE LET rows == TrailingWindow(returns.data[c], t, window)
                           rolling_vol == PhiSqrt(Variance(rows))
                       IN  IF ~Complete(rows) THEN NaN
                           ELSE IF annualized THEN Mul(rolling_vol, Q(TradingDays, 1))
                           ELSE rolling_vol]])

\* (rolling mean of the excess returns / rolling std of the returns) * sqrt(252)
calculate_rolling_sharpe(returns, window, risk_free_rate) ==
    Frame(returns.columns, returns.index,
          [c \in DOMAIN returns.data |->
              [t \in DOMAIN returns.data[c] |->
                  IF t < window THEN NaN
                  ELSE LET daily_rf == Div(risk_free_rate, Q(TradingDays, 1))
                           rows == TrailingWindow(returns.data[c], t, window)
                           rolling_mean == Mean([k \in DOMAIN rows |-> Sub(rows[k], daily_rf)])
                           rolling_std == PhiSqrt(Variance(rows))
                       IN  IF ~Complete(rows) THEN NaN
                           ELSE Mul(Div(Phi(rolling_mean), rolling_std),
                                    Q(TradingDays, 1))]])

\* rolling covariance with the market / rolling variance of the market
calculate_rolling_beta(returns, market_returns, window) ==
    Frame(returns.columns, returns.index,
          [c \in DOMAIN returns.data |->
              [t \in DOMAIN returns.data[c] |->
                  IF t < window THEN NaN
                  ELSE LET rows == TrailingWindow(returns.data[c], t, window)
                           market == TrailingWindow(market_returns, t, window)
                           cov == IF Complete(rows) /\ Complete(market)
                                  THEN Cov(rows, market) ELSE NaN
                           var == IF Complete(market) THEN Variance(market) ELSE NaN
                       IN  Div(cov, var)]])

(***************************************************************************)
(* Summary aggregator                                                       *)
(***************************************************************************)
SummaryColumns ==
    <<"Total Return", "Annualized Return", "Volatility (Ann.)", "Downside Dev",
      "Max Drawdown", "VaR (95%)", "CVaR (95%)", "Sharpe Ratio", "Sortino Ratio",
      "Calmar Ratio", "Omega Ratio">>

\* DataFrame.round(decimals): the cell rounded to that many decimals, kept
\* as the pair (exact value, decimals); NaN and the infinities stay as they are
Rounded(x, decimals) == [of |-> x, decimals |-> decimals]

\* summary[name] = series: the values are placed by asset label, an asset the
\* series does not carry gets NaN
AlignTo(series, idx) ==
    [k \in DOMAIN idx |->
        IF \E j \in DOMAIN series.index : series.index[j] = idx[k]
        THEN series.values[CHOOSE j \in DOMAIN series.index : series.index[j] = idx[k]]
        ELSE NaN]

SummaryColumn(series, idx) ==
    LET placed == AlignTo(series, idx)
    IN  [k \in DOMAIN idx |-> Rounded(placed[k], 4)]

generate_performance_summary(prices, returns, risk_free_rate) ==
    LET total == calculate_total_return(prices)
        ann == calculate_annualized_return(returns)
        idx == returns.columns
    IN  IF total.raised # "none" THEN [raised |-> total.raised, value |-> EmptyFrame]
        ELSE IF ann.raised # "none" THEN [raised |-> ann.raised, value |-> EmptyFrame]
        ELSE [raised |-> "none",
              value |-> Frame(SummaryColumns, idx,
                 << SummaryColumn(total.value, idx),
                    SummaryColumn(ann.value, idx),
                    SummaryColumn(calculate_volatility(returns, TRUE), idx),
                    SummaryColumn(calculate_downside_deviation(returns, Zero, TRUE), idx),
                    SummaryColumn(calculate_max_drawdown(prices), idx),
                    SummaryColumn(calculate_var(returns, Q(95, 100), "historical").value, idx),
                    SummaryColumn(calculate_cvar(returns, Q(95, 100)), idx),
                    SummaryColumn(calculate_sharpe_ratio(returns, risk_free_rate, TRUE), idx),
                    SummaryColumn(calculate_sortino_ratio(returns, risk_free_rate, Zero, TRUE), idx),
                    SummaryColumn(calculate_calmar_ratio(prices, returns).value, idx),
                    SummaryColumn(calculate_omega_ratio(returns, Zero), idx) >>)]

(***************************************************************************)
(* The process-wide generator behind np.random.seed / np.random.random.     *)
(* MT19937 is abstracted to a full-period congruential generator over       *)
(* RngMod states whose outputs are the RngRange values k / RngRange of      *)
(* [0, 1), the value 0 included.                                            *)
(***************************************************************************)
RngRange == 4

RngMod == RngRange * RngRange

RngStates == 0 .. (RngMod - 1)

RngNext(s) == ((RngRange + 1) * s + 1) % RngMod

RngOut(s) == Q(s \div RngRange, RngRange)

\* random_seed = None
NoSeed == -1

\* np.random.seed(seed): the state is a function of the seed alone
np_random_seed(seed) == seed % RngMod

RECURSIVE np_random_random(_, _)
\* np.random.random(size): size successive outputs and the state left behind
np_random_random(state, size) ==
    IF size = 0 THEN [values |-> <<>>, state |-> state]
    ELSE LET rest == np_random_random(RngNext(state), size - 1)
         IN  [values |-> <<RngOut(state)>> \o rest.values, state |-> rest.state]

\* Variant: the seed is accepted but the generator is never re-seeded
SeedStep_ignored(random_seed, state) == state

\* if random_seed is not None: np.random.seed(random_seed)
SeedStep(random_seed, state) ==
    IF random_seed # NoSeed THEN np_random_seed(random_seed) ELSE state

(***************************************************************************)
(* Portfolio evaluator and efficient-frontier simulator                     *)
(***************************************************************************)
\* DataFrame.mean(): one mean per column
mean_of(returns) == [c \in DOMAIN returns.data |-> Mean(returns.data[c])]

cov_of(returns) ==
    [a \in DOMAIN returns.data |->
        [b \in DOMAIN returns.data |-> Cov(returns.data[a], returns.data[b])]]

\* mean_returns * weights, a Series times an array: an array of length 1 is
\* broadcast over the Series
SeriesTimesArray(series, array) ==
    [k \in DOMAIN series |->
        Mul(series[k], array[IF Len(array) = 1 THEN 1 ELSE k])]

\* The exception numpy / pandas raise for operands of the given sizes, "none"
\* if they accept them: the product needs equal lengths or an array of
\* length 1, the matrix product needs the dimension of the matrix
PerformanceError(weights, mean_returns, cov_matrix) ==
    IF Len(mean_returns) # Len(weights) /\ Len(weights) # 1 THEN "ValueError"
    ELSE IF Len(cov_matrix) # Len(weights) THEN "ValueError"
    ELSE "none"

\* (annualized return, Phi(annualized volatility), Phi(Sharpe)), for operands
\* numpy accepts.  np.sum of a Series is Series.sum(), which skips NaN.
calculate_portfolio_performance(weights, mean_returns, cov_matrix, risk_free_rate) ==
    LET portfolio_return ==
            Mul(SumSeq(SkipNa(SeriesTimesArray(mean_returns, weights))),
                Q(TradingDays, 1))
        cw == [a \in DOMAIN cov_matrix |->
                  SumSeq([b \in DOMAIN weights |-> Mul(cov_matrix[a][b], weights[b])])]
        wcw == SumSeq([a \in DOMAIN weights |-> Mul(weights[a], cw[a])])
        portfolio_std == Mul(PhiSqrt(wcw), Q(TradingDays, 1))
        sharpe == Div(Phi(Sub(portfolio_return, risk_free_rate)), portfolio_std)
    IN  <<portfolio_return, portfolio_std, sharpe>>

\* weights = np.random.random(num_assets); weights /= np.sum(weights)
Normalize(draw) == [k \in DOMAIN draw |-> Div(draw[k], SumSeq(draw))]

ZeroRow == [Volatility |-> Zero, Return |-> Zero, Sharpe |-> Zero, ReturnPerRisk |-> Zero]

\* The column results[:, i] written by one pass of the loop body
ResultRow(weights, mean_returns, cov_matrix, risk_free_rate) ==
    LET perf == calculate_portfolio_performance(weights, mean_returns,
                                                cov_matrix, risk_free_rate)
    IN  [Volatility |-> perf[2], Return |-> perf[1], Sharpe |-> perf[3],
         ReturnPerRisk |-> Div(Phi(perf[1]), perf[2])]

RECURSIVE ArgScan(_, _, _, _)
\* numpy argmax (dir = 1) / argmin (dir = -1): the first NaN if there is
\* one, else the first extreme value
ArgScan(vals, k, best, dir) ==
    IF k > Len(vals) THEN best
    ELSE IF IsNaN(vals[best]) THEN best
    ELSE IF \/ IsNaN(vals[k])
            \/ (dir = 1 /\ Lt(vals[best], vals[k]))
            \/ (dir = -1 /\ Lt(vals[k], vals[best]))
         THEN ArgScan(vals, k + 1, k, dir)
         ELSE ArgScan(vals, k + 1, best, dir)

argmax(vals) == ArgScan(vals, 2, 1, 1)

\* Variant: among equal values the last one is selected
argmin_last(vals) ==
    LET n == Len(vals)
        reversed == [k \in 1 .. n |-> vals[n + 1 - k]]
    IN  n + 1 - ArgScan(reversed, 2, 1, -1)

argmin(vals) == ArgScan(vals, 2, 1, -1)

NoRecord == [weights |-> EmptySeries, return |-> NaN, volatility |-> NaN, sharpe |-> NaN]

NoOptimal == [max_sharpe |-> NoRecord, min_volatility |-> NoRecord]

\* Variant: 'sharpe' read from row 3 (ReturnPerRisk) instead of row 2
OptimalRecord_row3(returns, results, weights_record, idx) ==
    [weights |-> Series(returns.columns, weights_record[idx]),
     return |-> results[idx].Return,
     volatility |-> results[idx].Volatility,
     sharpe |-> results[idx].ReturnPerRisk]

\* One entry of the `optimal` dictionary
OptimalRecord(returns, results, weights_record, idx) ==
    [weights |-> Series(returns.columns, weights_record[idx]),
     return |-> results[idx].Return,
     volatility |-> results[idx].Volatility,
     sharpe |-> results[idx].Sharpe]

FindOptimal(returns, results, weights_record) ==
    LET max_sharpe_idx == argmax([k \in DOMAIN results |-> results[k].Sharpe])
        min_vol_idx == argmin([k \in DOMAIN results |-> results[k].Volatility])
    IN  [max_sharpe |-> OptimalRecord(returns, results, weights_record, max_sharpe_idx),
         min_volatility |-> OptimalRecord(returns, results, weights_record, min_vol_idx)]

\* One pass of the loop body from generator state `state`: draw, normalize,
\* evaluate
LoopBody(num_assets, mean_returns, cov_matrix, risk_free_rate, state) ==
    LET d == np_random_random(state, num_assets)
        weights == Normalize(d.values)
    IN  [weights |-> weights,
         row |-> ResultRow(weights, mean_returns, cov_matrix, risk_free_rate),
         state |-> d.state]

RECURSIVE RunLoop(_, _, _, _, _, _, _)
RunLoop(num_assets, mean_returns, cov_matrix, risk_free_rate, num_portfolios, i, acc) ==
    IF i = num_portfolios THEN acc
    ELSE LET b == LoopBody(num_assets, mean_returns, cov_matrix, risk_free_rate, acc.state)
         IN  RunLoop(num_assets, mean_returns, cov_matrix, risk_free_rate,
                     num_portfolios, i + 1,
                     [results |-> [acc.results EXCEPT ![i + 1] = b.row],
                      weights_record |-> Append(acc.weights_record, b.weights),
                      state |-> b.state])

\* The whole call, run with nothing else touching the generator, started
\* with the generator in `state`
simulate_efficient_frontier(returns, num_portfolios, risk_free_rate, random_seed, state) ==
    LET fin == RunLoop(NCols(returns), mean_of(returns), cov_of(returns),
                       risk_free_rate, num_portfolios, 0,
                       [results |-> [k \in 1 .. num_portfolios |-> ZeroRow],
                        weights_record |-> <<>>,
                        state |-> SeedStep(random_seed, state)])
    IN  [sim_df |-> fin.results,
         optimal |-> FindOptimal(returns, fin.results, fin.weights_record),
         state |-> fin.state]

(***************************************************************************)
(* Inputs                                                                   *)
(***************************************************************************)
MaxPortfolios == 2

MaxRows == 3

MaxPrice == 2

IntCol(s) == [k \in DOMAIN s |-> Q(s[k], 1)]

\* Return panels handed to the simulator: two perfectly anti-correlated
\* assets (some weight vectors have zero variance), a panel of a single row
\* (its covariance matrix is NaN), a panel of a single asset, and two assets
\* with constant returns (every portfolio has zero variance).
ReturnPanels ==
    << Frame(<<"A", "B">>, <<2, 3>>, <<IntCol(<<2, 0>>), IntCol(<<0, 1>>)>>),
       Frame(<<"A", "B">>, <<2>>, <<IntCol(<<1>>), IntCol(<<2>>)>>),
       Frame(<<"A">>, <<2, 3>>, <<IntCol(<<2, 0>>)>>),
       Frame(<<"A", "B">>, <<2, 3>>, <<IntCol(<<1, 1>>), IntCol(<<0, 0>>)>>) >>

\* mean_returns and cov_matrix, which a call computes once before its loop
PanelMean == [p \in DOMAIN ReturnPanels |-> mean_of(ReturnPanels[p])]

PanelCov == [p \in DOMAIN ReturnPanels |-> cov_of(ReturnPanels[p])]

RiskFreeRates == {Zero, One}

Seeds == {7, 42}

Callers == {"t1", "t2"}

MainThread == "t1"

AssetLists == {<<"A">>, <<"A", "B">>}

\* A cell of a price panel: a price, or NaN where the source has no quote
PriceCells == {NaN} \cup {Q(v, 1) : v \in 0 .. MaxPrice}

\* Columns of n cells; a missing quote only before the asset's first quote
PriceColumns(n) ==
    {col \in [1 .. n -> PriceCells] :
        \A t \in 2 .. n : IsNaN(col[t]) => IsNaN(col[t - 1])}

\* The price panel of n dates (labelled 1 .. n) with the given columns
PricePanel(cols, n, d) == Frame(cols, [t \in 1 .. n |-> t], d)

(***************************************************************************)
(* State                                                                    *)
(***************************************************************************)
VARIABLES
    rng,         \* state of the process-wide generator
    call,        \* per thread: the frame of its simulate_efficient_frontier call
    prev,        \* history: an earlier seeded call and what it returned
    before,      \* history: the generator state the main thread's call found
    panel,       \* the price panel handed to the return transforms
    stage,       \* how far the transforms have been applied to `panel`
    ret_panel,   \* calculate_returns(panel)
    cum_panel,   \* calculate_cumulative_returns(ret_panel)
    vol_series,  \* calculate_volatility(ret_panel)
    total_ret,   \* calculate_total_return(panel)
    metric       \* the last metric operation applied and what it returned

simvars == <<rng, call, prev, before>>

retvars == <<panel, stage, ret_panel, cum_panel, vol_series, total_ret>>

metvars == <<metric>>

vars == <<rng, call, prev, before, panel, stage, ret_panel, cum_panel, vol_series,
          total_ret, metric>>

IdleCall ==
    [pc |-> "idle", returns |-> 1, num_portfolios |-> 0,
     risk_free_rate |-> Zero, random_seed |-> NoSeed, i |-> 0, results |-> <<>>,
     weights_record |-> <<>>, sim_df |-> <<>>, optimal |-> NoOptimal]

Args(f) == <<f.returns, f.num_portfolios, f.risk_free_rate, f.random_seed>>

NoPrev ==
    [args |-> <<0, 0, Zero, NoSeed>>, sim_df |-> <<>>, optimal |-> NoOptimal,
     older |-> FALSE]

NoTotal == [raised |-> "none", value |-> EmptySeries]

NoMetric == [op |-> "none", args |-> <<>>, raised |-> "none", value |-> EmptySeries]

SimIdle ==
    /\ call = [c \in Callers |-> IdleCall]
    /\ prev = NoPrev

RetIdle ==
    /\ stage = "none"
    /\ panel = EmptyFrame
    /\ ret_panel = EmptyFrame
    /\ cum_panel = EmptyFrame
    /\ vol_series = EmptySeries
    /\ total_ret = NoTotal
    /\ metric = NoMetric

(***************************************************************************)
(* The simulator, step by step                                              *)
(***************************************************************************)
\* Variant: the result matrix is pre-filled from the generator, which
\* consumes 4 * num_portfolios values between the seeding and the first draw
Enter_prefilled(c, p, n, rf, seed) ==
    /\ rng' = np_random_random(SeedStep(seed, rng), 4 * n).state
    /\ call' = [call EXCEPT ![c] =
                   [pc |-> "loop", returns |-> p, num_portfolios |-> n,
                    risk_free_rate |-> rf, random_seed |-> seed, i |-> 0,
                    results |-> [k \in 1 .. n |-> ZeroRow], weights_record |-> <<>>,
                    sim_df |-> <<>>, optimal |-> NoOptimal]]
    /\ UNCHANGED retvars
    /\ UNCHANGED metvars

\* Entry of simulate_efficient_frontier up to the loop: seeding and locals
Enter(c, p, n, rf, seed) ==
    /\ rng' = SeedStep(seed, rng)
    /\ call' = [call EXCEPT ![c] =
                   [pc |-> "loop", returns |-> p, num_portfolios |-> n,
                    risk_free_rate |-> rf, random_seed |-> seed, i |-> 0,
                    results |-> [k \in 1 .. n |-> ZeroRow], weights_record |-> <<>>,
                    sim_df |-> <<>>, optimal |-> NoOptimal]]
    /\ UNCHANGED retvars
    /\ UNCHANGED metvars

\* One pass of the loop body
Draw(c) ==
    /\ call[c].pc = "loop"
    /\ call[c].i < call[c].num_portfolios
    /\ LET p == call[c].returns
           b == LoopBody(NCols(ReturnPanels[p]), PanelMean[p], PanelCov[p],
                         call[c].risk_free_rate, rng)
       IN  /\ rng' = b.state
           /\ call' = [call EXCEPT
                          ![c].weights_record = Append(@, b.weights),
                          ![c].results = [@ EXCEPT ![call[c].i + 1] = b.row],
                          ![c].i = @ + 1]
    /\ UNCHANGED <<prev, before>>
    /\ UNCHANGED retvars
    /\ UNCHANGED metvars

\* After the loop: the result frame and the optimal portfolios
Finish(c) ==
    /\ call[c].pc = "loop"
    /\ call[c].i = call[c].num_portfolios
    /\ call' = [call EXCEPT
                   ![c].pc = "done",
                   ![c].sim_df = call[c].results,
                   ![c].optimal = FindOptimal(ReturnPanels[call[c].returns],
                                              call[c].results, call[c].weights_record)]
    /\ UNCHANGED <<rng, prev, before>>
    /\ UNCHANGED retvars
    /\ UNCHANGED metvars

\* A call of the single-threaded program: the previous call has returned
Call(c) ==
    /\ c = MainThread
    /\ call[c].pc \in {"idle", "done"}
    /\ \E p \in DOMAIN ReturnPanels, n \in 1 .. MaxPortfolios,
          rf \in RiskFreeRates, seed \in Seeds \cup {NoSeed} : Enter(c, p, n, rf, seed)
    /\ before' = rng
    /\ prev' = [prev EXCEPT !.older = (prev.args # NoPrev.args)]

\* History: keep a returned seeded call to compare later calls with
Remember(c) ==
    /\ call[c].pc = "done"
    /\ call[c].random_seed # NoSeed
    /\ prev' = [args |-> Args(call[c]), sim_df |-> call[c].sim_df,
                optimal |-> call[c].optimal, older |-> FALSE]
    /\ UNCHANGED <<rng, call, before>>
    /\ UNCHANGED retvars
    /\ UNCHANGED metvars

\* One of two seeded calls made by two threads at once
CallConcurrent(c) ==
    /\ call[c].pc = "idle"
    /\ \E p \in DOMAIN ReturnPanels, n \in 1 .. MaxPortfolios,
          rf \in RiskFreeRates, seed \in Seeds : Enter(c, p, n, rf, seed)
    /\ UNCHANGED <<before, prev>>

\* The generator of a fresh process is seeded from OS entropy: any state
Init ==
    /\ rng \in RngStates
    /\ before = rng
    /\ SimIdle
    /\ RetIdle

Next ==
    \E c \in Callers : Call(c) \/ Draw(c) \/ Finish(c) \/ Remember(c)

Spec == Init /\ [][Next]_vars

NextConc ==
    \E c \in Callers : CallConcurrent(c) \/ Draw(c) \/ Finish(c)

InitConc ==
    /\ rng \in RngStates
    /\ before = 0
    /\ SimIdle
    /\ RetIdle

SpecConc == InitConc /\ [][NextConc]_vars

(***************************************************************************)
(* The return transforms applied to a price panel, in the order of app.py   *)
(***************************************************************************)
CalcReturns ==
    /\ stage = "loaded"
    /\ ret_panel' = calculate_returns(panel)
    /\ stage' = "returns"
    /\ UNCHANGED <<panel, cum_panel, vol_series, total_ret>>
    /\ UNCHANGED simvars
    /\ UNCHANGED metvars

CalcCumulative ==
    /\ stage = "returns"
    /\ cum_panel' = calculate_cumulative_returns(ret_panel)
    /\ stage' = "cumulative"
    /\ UNCHANGED <<panel, ret_panel, vol_series, total_ret>>
    /\ UNCHANGED simvars
    /\ UNCHANGED metvars

CalcVolatility ==
    /\ stage = "cumulative"
    /\ \E annualized \in BOOLEAN :
          vol_series' = calculate_volatility(ret_panel, annualized)
    /\ stage' = "volatility"
    /\ UNCHANGED <<panel, ret_panel, cum_panel, total_ret>>
    /\ UNCHANGED simvars
    /\ UNCHANGED metvars

CalcTotalReturn ==
    /\ stage = "volatility"
    /\ total_ret' = calculate_total_return(panel)
    /\ stage' = IF total_ret'.raised = "none" THEN "total" ELSE "raised"
    /\ UNCHANGED <<panel, ret_panel, cum_panel, vol_series>>
    /\ UNCHANGED simvars
    /\ UNCHANGED metvars

InitRet ==
    /\ rng = 0
    /\ before = 0
    /\ SimIdle
    /\ \E n \in 0 .. MaxRows, cols \in AssetLists :
          \E d \in [1 .. Len(cols) -> PriceColumns(n)] :
              panel = PricePanel(cols, n, d)
    /\ stage = "loaded"
    /\ ret_panel = EmptyFrame
    /\ cum_panel = EmptyFrame
    /\ vol_series = EmptySeries
    /\ total_ret = NoTotal
    /\ metric = NoMetric

NextRet == CalcReturns \/ CalcCumulative \/ CalcVolatility \/ CalcTotalReturn

SpecRet == InitRet /\ [][NextRet]_vars

(***************************************************************************)
(* The metric operations, each applied to a loaded panel and its returns    *)
(***************************************************************************)
\* confidence: the default and the lowest level the dashboard offers
Confidences == {Q(95, 100), Q(90, 100)}

Methods == {"historical", "parametric", "Historical", "monte_carlo"}

\* The second asset of a two-asset panel: a constant price, a price moving
\* down and up, or an asset first quoted on the second date
Companions == 1 .. 3

CompanionColumn(k, n) ==
    [t \in 1 .. n |->
        IF k = 1 THEN Q(1, 1)
        ELSE IF k = 2 THEN Q(1 + (t % 2), 1)
        ELSE IF t = 1 THEN NaN ELSE Q(1 + (t % 2), 1)]

Returned(op, args, value) ==
    [op |-> op, args |-> args, raised |-> "none", value |-> value]

Raised(op, args, error) ==
    [op |-> op, args |-> args, raised |-> error, value |-> EmptySeries]

\* What every metric operation leaves alone
MetricFrame ==
    /\ stage = "returns"
    /\ metric = NoMetric
    /\ UNCHANGED <<panel, stage, ret_panel, cum_panel, vol_series, total_ret>>
    /\ UNCHANGED simvars

\* calculate_log_returns is applied to the prices themselves
LogReturns ==
    /\ stage = "loaded"
    /\ metric = NoMetric
    /\ metric' = Returned("log_returns", <<>>, calculate_log_returns(panel))
    /\ UNCHANGED <<panel, stage, ret_panel, cum_panel, vol_series, total_ret>>
    /\ UNCHANGED simvars

MaxDrawdown ==
    /\ MetricFrame
    /\ metric' = Returned("max_drawdown", <<>>, calculate_max_drawdown(panel))

AnnualizedReturn ==
    /\ MetricFrame
    /\ LET r == calculate_annualized_return(ret_panel)
       IN  metric' = [op |-> "annualized_return", args |-> <<>>,
                      raised |-> r.raised, value |-> r.value]

Volatility ==
    /\ MetricFrame
    /\ \E annualized \in BOOLEAN :
          metric' = Returned("volatility", <<annualized>>,
                             calculate_volatility(ret_panel, annualized))

DownsideDeviation ==
    /\ MetricFrame
    /\ \E annualized \in BOOLEAN :
          metric' = Returned("downside_deviation", <<annualized>>,
                             calculate_downside_deviation(ret_panel, Zero, annualized))

ValueAtRisk ==
    /\ MetricFrame
    /\ \E confidence \in Confidences, method \in Methods :
          LET r == calculate_var(ret_panel, confidence, method)
          IN  metric' = [op |-> "var", args |-> <<confidence, method>>,
                         raised |-> r.raised, value |-> r.value]

ConditionalValueAtRisk ==
    /\ MetricFrame
    /\ \E confidence \in Confidences :
          metric' = Returned("cvar", <<confidence>>, calculate_cvar(ret_panel, confidence))

SharpeRatio ==
    /\ MetricFrame
    /\ \E rf \in RiskFreeRates, annualized \in BOOLEAN :
          metric' = Returned("sharpe_ratio", <<rf, annualized>>,
                             calculate_sharpe_ratio(ret_panel, rf, annualized))

SortinoRatio ==
    /\ MetricFrame
    /\ \E rf \in RiskFreeRates :
          metric' = Returned("sortino_ratio", <<rf>>,
                             calculate_sortino_ratio(ret_panel, rf, Zero, TRUE))

CalmarRatio ==
    /\ MetricFrame
    /\ LET r == calculate_calmar_ratio(panel, ret_panel)
       IN  metric' = [op |-> "calmar_ratio", args |-> <<>>,
                      raised |-> r.raised, value |-> r.value]

OmegaRatio ==
    /\ MetricFrame
    /\ metric' = Returned("omega_ratio", <<>>, calculate_omega_ratio(ret_panel, Zero))

PerformanceSummary ==
    /\ MetricFrame
    /\ \E rf \in RiskFreeRates :
          LET r == generate_performance_summary(panel, ret_panel, rf)
          IN  metric' = [op |-> "performance_summary", args |-> <<rf>>,
                         raised |-> r.raised, value |-> r.value]

InitMet ==
    /\ rng = 0
    /\ before = 0
    /\ SimIdle
    /\ \E n \in 0 .. MaxRows :
          \E a \in PriceColumns(n) :
              \/ panel = PricePanel(<<"A">>, n, <<a>>)
              \/ \E k \in Companions :
                    panel = PricePanel(<<"A", "B">>, n, <<a, CompanionColumn(k, n)>>)
    /\ stage = "loaded"
    /\ ret_panel = EmptyFrame
    /\ cum_panel = EmptyFrame
    /\ vol_series = EmptySeries
    /\ total_ret = NoTotal
    /\ metric = NoMetric

NextMet ==
    \/ CalcReturns
    \/ LogReturns
    \/ MaxDrawdown
    \/ AnnualizedReturn
    \/ Volatility
    \/ DownsideDeviation
    \/ ValueAtRisk
    \/ ConditionalValueAtRisk
    \/ SharpeRatio
    \/ SortinoRatio
    \/ CalmarRatio
    \/ OmegaRatio
    \/ PerformanceSummary

SpecMet == InitMet /\ [][NextMet]_vars

(***************************************************************************)
(* The portfolio evaluator called on its own, with operands of any sizes    *)
(***************************************************************************)
MaxAssets == 2

\* Weight vectors of n assets on the grid 0, 1/2, 1 that sum to 1
WeightVectors(n) ==
    {w \in [1 .. n -> {Zero, Q(1, 2), One}] : SumSeq(w) = One}

MeanVectors(n) == [1 .. n -> {Zero, One}]

\* Covariance matrices of n assets: uncorrelated assets of variance 0 or 1,
\* and n copies of one asset of variance 1
CovMatrices(n) ==
    {[a \in 1 .. n |-> [b \in 1 .. n |-> IF a = b THEN Q(d[a], 1) ELSE Zero]] :
        d \in [1 .. n -> 0 .. 1]}
    \cup {[a \in 1 .. n |-> [b \in 1 .. n |-> One]]}

EvaluatePortfolio ==
    /\ metric = NoMetric
    /\ \E nw, nm, nc \in 1 .. MaxAssets :
          \E weights \in WeightVectors(nw), mean_returns \in MeanVectors(nm),
             cov_matrix \in CovMatrices(nc), rf \in RiskFreeRates :
              LET error == PerformanceError(weights, mean_returns, cov_matrix)
              IN  metric' =
                      IF error # "none"
                      THEN Raised("portfolio_performance",
                                  <<weights, mean_returns, cov_matrix, rf>>, error)
                      ELSE Returned("portfolio_performance",
                                    <<weights, mean_returns, cov_matrix, rf>>,
                                    calculate_portfolio_performance(
                                        weights, mean_returns, cov_matrix, rf))
    /\ UNCHANGED retvars
    /\ UNCHANGED simvars

InitEval ==
    /\ rng = 0
    /\ before = 0
    /\ SimIdle
    /\ RetIdle

NextEval == EvaluatePortfolio

SpecEval == InitEval /\ [][NextEval]_vars

(***************************************************************************)
(* The rolling metrics, each applied to a return panel and a market series  *)
(***************************************************************************)
MaxRollRows == 3

\* A cell of a return panel handed to the rolling metrics
ReturnCells == {Q(-1, 2), Zero, One, PosInf}

\* The market returns on n dates: alternating, or rising
MarketPatterns == 1 .. 2

MarketColumn(k, n) ==
    [t \in 1 .. n |-> IF k = 1 THEN Q(t % 2, 1) ELSE Q(t, 2)]

\* window, up to one more than the longest panel
Windows == 1 .. (MaxRollRows + 1)

RollingVolatility ==
    /\ MetricFrame
    /\ \E window \in Windows, annualized \in BOOLEAN :
          metric' = Returned("rolling_volatility", <<window, annualized>>,
                             calculate_rolling_volatility(ret_panel, window, annualized))

RollingSharpe ==
    /\ MetricFrame
    /\ \E window \in Windows, rf \in RiskFreeRates :
          metric' = Returned("rolling_sharpe", <<window, rf>>,
                             calculate_rolling_sharpe(ret_panel, window, rf))

RollingBeta ==
    /\ MetricFrame
    /\ \E window \in Windows, k \in MarketPatterns :
          LET market_returns == MarketColumn(k, NRows(ret_panel))
          IN  metric' = Returned("rolling_beta", <<window, market_returns>>,
                                 calculate_rolling_beta(ret_panel, market_returns, window))

\* The return panel is handed over as it is; no price panel is involved
InitRoll ==
    /\ rng = 0
    /\ before = 0
    /\ SimIdle
    /\ panel = EmptyFrame
    /\ stage = "returns"
    /\ \E n \in 0 .. MaxRollRows :
          \E a \in [1 .. n -> ReturnCells] :
              \/ ret_panel = Frame(<<"A">>, [t \in 1 .. n |-> t], <<a>>)
              \/ ret_panel = Frame(<<"A", "B">>, [t \in 1 .. n |-> t],
                                   <<a, [t \in 1 .. n |-> Q(t % 2, 1)]>>)
    /\ cum_panel = EmptyFrame
    /\ vol_series = EmptySeries
    /\ total_ret = NoTotal
    /\ metric = NoMetric

NextRoll == RollingVolatility \/ RollingSharpe \/ RollingBeta

SpecRoll == InitRoll /\ [][NextRoll]_vars

(***************************************************************************)
(* Properties of the simulator                                              *)
(***************************************************************************)
Done(c) == call[c].pc = "done"

Seeded(c) == call[c].random_seed # NoSeed

\* C1: two calls with the same return panel, number of portfolios, risk-free
\* rate and non-null seed return the same simulation records in the same
\* order and the same max-Sharpe and min-volatility selections, whatever
\* calls (seeded or not) the program made before or between them.
C1_SeededCallsDeterministic ==
    \A c \in Callers :
        (Done(c) /\ Seeded(c) /\ prev.args = Args(call[c]))
            => /\ call[c].sim_df = prev.sim_df
               /\ call[c].optimal = prev.optimal

\* A later call repeats the arguments of a remembered earlier call, and it
\* found the generator in another state than the one its seed sets
C1_Witness ==
    \E c \in Callers :
        /\ Done(c) /\ Seeded(c) /\ prev.older
        /\ prev.args = Args(call[c])
        /\ call[c].num_portfolios = MaxPortfolios
        /\ before # np_random_seed(call[c].random_seed)

\* C2: a seeded call that ran interleaved with another seeded call returns
\* exactly the records and optimal selections it returns when it runs alone
\* with that seed.
C2_ConcurrentCallsAsAlone ==
    \A c \in Callers :
        (Done(c) /\ Seeded(c))
            => LET alone == simulate_efficient_frontier(
                                ReturnPanels[call[c].returns], call[c].num_portfolios,
                                call[c].risk_free_rate, call[c].random_seed, 0)
               IN  /\ call[c].sim_df = alone.sim_df
                   /\ call[c].optimal = alone.optimal

\* C3: once a call has returned, the process-wide generator is in the state
\* the call found it in: no engine call leaves state behind.
C3_GeneratorStateRestored ==
    Done(MainThread) => rng = before

IsSimplex(w) ==
    /\ \A k \in DOMAIN w : Le(Zero, w[k])
    /\ SumSeq(w) = One

\* C4: every weight vector the simulator records has no negative component
\* and sums to 1, for every draw of values of [0, 1), zeros included.
C4_WeightsOnSimplex ==
    \A c \in Callers :
        \A k \in DOMAIN call[c].weights_record : IsSimplex(call[c].weights_record[k])

\* C5: with num_portfolios = 1 on a two-asset panel, the single drawn
\* portfolio is both the max-Sharpe and the min-volatility record: same
\* weights, return, volatility and Sharpe.
C5_SinglePortfolioIsBothOptima ==
    \A c \in Callers :
        (Done(c) /\ call[c].num_portfolios = 1
                 /\ NCols(ReturnPanels[call[c].returns]) = 2)
            => LET drawn ==
                       [weights |-> Series(ReturnPanels[call[c].returns].columns,
                                           call[c].weights_record[1]),
                        return |-> call[c].sim_df[1].Return,
                        volatility |-> call[c].sim_df[1].Volatility,
                        sharpe |-> call[c].sim_df[1].Sharpe]
               IN  /\ call[c].optimal.max_sharpe = drawn
                   /\ call[c].optimal.min_volatility = drawn

C5_Witness ==
    \E c \in Callers :
        /\ Done(c)
        /\ call[c].num_portfolios = 1
        /\ NCols(ReturnPanels[call[c].returns]) = 2
        /\ IsFinite(call[c].optimal.max_sharpe.sharpe)
        /\ call[c].optimal.max_sharpe.sharpe # call[c].sim_df[1].ReturnPerRisk

\* C15: simulate_efficient_frontier fails (InsufficientAssetsError) on a
\* return panel with fewer than 2 assets: such a call draws no portfolio,
\* records nothing and returns no simulation records or optimal selections.
C15_SingleAssetRejected ==
    \A c \in Callers :
        NCols(ReturnPanels[call[c].returns]) < 2
            => /\ call[c].weights_record = <<>>
               /\ ~Done(c)

\* C20: once a call has scanned its records, the Sharpe ratio of the
\* max-Sharpe record is >= that of every simulation record and the
\* volatility of the min-volatility record is <= that of every simulation
\* record, records with non-finite Sharpe or volatility included.
C20_OptimaDominateAllRecords ==
    \A c \in Callers :
        Done(c) => \A k \in DOMAIN call[c].sim_df :
                      /\ Le(call[c].sim_df[k].Sharpe, call[c].optimal.max_sharpe.sharpe)
                      /\ Le(call[c].optimal.min_volatility.volatility,
                            call[c].sim_df[k].Volatility)

\* Record i of a returned call, as an entry of `optimal` would show it
DrawnRecord(c, i) ==
    [weights |-> Series(ReturnPanels[call[c].returns].columns,
                        call[c].weights_record[i]),
     return |-> call[c].sim_df[i].Return,
     volatility |-> call[c].sim_df[i].Volatility,
     sharpe |-> call[c].sim_df[i].Sharpe]

\* Record k holds the extreme value of vals: it is >= (dir = 1) or <=
\* (dir = -1) every value
Extreme(vals, k, dir) ==
    \A j \in DOMAIN vals :
        IF dir = 1 THEN Le(vals[j], vals[k]) ELSE Le(vals[k], vals[j])

\* `record` is record i of the call, no earlier record carries the selected
\* value, and no earlier record holds the extreme value
SelectedAt(c, record, vals, i, dir) ==
    /\ record = DrawnRecord(c, i)
    /\ \A k \in 1 .. (i - 1) : vals[k] # vals[i] /\ ~Extreme(vals, k, dir)

\* C21: each optimal record of a returned call is one single simulation
\* record i: its return, volatility and Sharpe are those of record i, its
\* weights are the vector drawn at draw i keyed by the panel's columns in
\* order, and among records that tie for the extreme value i is the earliest.
C21_OptimalRecordsCoherent ==
    \A c \in Callers :
        Done(c) =>
            LET sharpes == [k \in DOMAIN call[c].sim_df |-> call[c].sim_df[k].Sharpe]
                vols == [k \in DOMAIN call[c].sim_df |-> call[c].sim_df[k].Volatility]
            IN  /\ \E i \in DOMAIN call[c].sim_df :
                      SelectedAt(c, call[c].optimal.max_sharpe, sharpes, i, 1)
                /\ \E i \in DOMAIN call[c].sim_df :
                      SelectedAt(c, call[c].optimal.min_volatility, vols, i, -1)

\* Two records with different weights tie for the lowest volatility, the
\* first is the min-volatility record and the second the max-Sharpe record
C21_Witness ==
    \E c \in Callers :
        /\ Done(c)
        /\ call[c].num_portfolios = 2
        /\ call[c].weights_record[1] # call[c].weights_record[2]
        /\ IsFinite(call[c].sim_df[1].Volatility)
        /\ call[c].sim_df[1].Volatility = call[c].sim_df[2].Volatility
        /\ Lt(call[c].sim_df[1].Sharpe, call[c].sim_df[2].Sharpe)
        /\ call[c].optimal.min_volatility = DrawnRecord(c, 1)
        /\ call[c].optimal.max_sharpe = DrawnRecord(c, 2)

\* The remembered call and the call of c were made with the same return
\* panel, risk-free rate and non-null seed
SameSeededInputs(c) ==
    /\ Seeded(c)
    /\ prev.args[1] = call[c].returns
    /\ prev.args[3] = call[c].risk_free_rate
    /\ prev.args[4] = call[c].random_seed

\* C22: for a fixed return panel, risk-free rate and non-null seed, the
\* first n simulation records of a run with num_portfolios = m >= n are the
\* n records of a run with num_portfolios = n, whichever of the two runs
\* came first and whatever calls were made between them.
C22_PrefixConsistency ==
    \A c \in Callers :
        (Done(c) /\ SameSeededInputs(c))
            => LET n == prev.args[2]
                   m == call[c].num_portfolios
               IN  /\ n <= m => SubSeq(call[c].sim_df, 1, n) = prev.sim_df
                   /\ m <= n => SubSeq(prev.sim_df, 1, m) = call[c].sim_df

\* A run with more portfolios than a remembered earlier run of the same
\* inputs has returned; it found the generator in another state than the
\* one its seed sets, and its records differ from one another
C22_Witness ==
    \E c \in Callers :
        /\ Done(c) /\ SameSeededInputs(c) /\ prev.older
        /\ prev.args[2] < call[c].num_portfolios
        /\ before # np_random_seed(call[c].random_seed)
        /\ IsFinite(call[c].sim_df[1].Sharpe)
        /\ \A k \in 2 .. call[c].num_portfolios :
              call[c].sim_df[k] # call[c].sim_df[1]

(***************************************************************************)
(* Properties of the return transforms                                      *)
(***************************************************************************)
HasReturns == stage \in {"returns", "cumulative", "volatility", "total", "raised"}

HasCumulative == stage \in {"cumulative", "volatility", "total", "raised"}

HasVolatility == stage \in {"volatility", "total", "raised"}

\* Every cell of the panel is a quote, and the quote is above zero
AllPresentPositive(f) ==
    \A c \in DOMAIN f.data : \A t \in DOMAIN f.data[c] :
        IsFinite(f.data[c][t]) /\ f.data[c][t][1] > 0

C8_VolatilityKeyedByAsset ==
    HasVolatility => /\ vol_series.index = ret_panel.columns
                     /\ Len(vol_series.values) = NCols(ret_panel)

C8_Witness ==
    /\ stage = "volatility"
    /\ NCols(ret_panel) = 2
    /\ Len(vol_series.values) = 2
    /\ IsNaN(vol_series.values[1])
    /\ IsFinite(vol_series.values[2])

OnePlus(col) == [k \in DOMAIN col |-> Add(One, col[k])]

\* C9: calculate_cumulative_returns returns a path as long as its input
\* whose value at index i is, for every asset, the product of
\* (1 + returns[k]) for k = 0..i.
C9_CumulativeIsRunningProduct ==
    HasCumulative =>
        /\ cum_panel.index = ret_panel.index
        /\ cum_panel.columns = ret_panel.columns
        /\ \A c \in DOMAIN ret_panel.data :
              /\ Len(cum_panel.data[c]) = NRows(ret_panel)
              /\ \A i \in 1 .. NRows(ret_panel) :
                    cum_panel.data[c][i] =
                        ProdSeq(OnePlus(SubSeq(ret_panel.data[c], 1, i)))

C9_Witness ==
    /\ stage = "cumulative"
    /\ NRows(ret_panel) = MaxRows - 1
    /\ NCols(ret_panel) = 2
    /\ \A c \in DOMAIN cum_panel.data :
          /\ IsFinite(cum_panel.data[c][1])
          /\ IsFinite(cum_panel.data[c][2])
          /\ cum_panel.data[c][2] # cum_panel.data[c][1]
          /\ cum_panel.data[c][1] # One

\* C10: for every price panel with at least 2 rows and positive prices, the
\* first price times the product of (1 + return) over all rows of
\* calculate_returns equals the last price, and calculate_total_return
\* equals the last value of calculate_cumulative_returns minus 1.
C10_RoundTrip ==
    (stage = "total" /\ NRows(panel) >= 2 /\ AllPresentPositive(panel))
        => \A c \in DOMAIN panel.data :
              /\ Mul(panel.data[c][1], ProdSeq(OnePlus(ret_panel.data[c])))
                     = panel.data[c][NRows(panel)]
              /\ total_ret.value.values[c]
                     = Sub(cum_panel.data[c][NRows(cum_panel)], One)

C10_Witness ==
    /\ stage = "total"
    /\ NRows(panel) = MaxRows
    /\ NCols(panel) = 2
    /\ AllPresentPositive(panel)
    /\ \A c \in DOMAIN panel.data :
          /\ panel.data[c][1] # panel.data[c][NRows(panel)]
          /\ panel.data[c][2] # panel.data[c][1]

(***************************************************************************)
(* Properties of the metric operations                                      *)
(***************************************************************************)
Applied(op) == metric.op = op

\* Some price of the column is a positive number
HasPositivePrice(col) == \E t \in DOMAIN col : IsFinite(col[t]) /\ col[t][1] > 0

\* The quoted prices of the column never fall
NonDecreasing(col) ==
    \A t, u \in DOMAIN col :
        (t < u /\ ~IsNaN(col[t]) /\ ~IsNaN(col[u])) => Le(col[t], col[u])

\* C11, as stated: calculate_max_drawdown is <= 0 for every asset of any
\* price panel with at least one row, and exactly 0 when the asset's prices
\* are non-decreasing.
C11_DrawdownNeverPositive ==
    (Applied("max_drawdown") /\ NRows(panel) >= 1)
        => \A c \in DOMAIN panel.data :
              /\ Le(metric.value.values[c], Zero)
              /\ NonDecreasing(panel.data[c]) => metric.value.values[c] = Zero

\* C11, amended: calculate_max_drawdown is <= 0 for every asset that has at
\* least one positive price, and exactly 0 when that asset's prices are
\* non-decreasing.
C11_DrawdownOfPricedAsset ==
    Applied("max_drawdown")
        => /\ metric.value.index = panel.columns
           /\ \A c \in DOMAIN panel.data :
                 HasPositivePrice(panel.data[c])
                     => /\ Le(metric.value.values[c], Zero)
                        /\ NonDecreasing(panel.data[c])
                               => metric.value.values[c] = Zero

\* One asset falls from its peak, the other never falls
C11_Witness ==
    /\ Applied("max_drawdown")
    /\ NCols(panel) = 2
    /\ NRows(panel) = MaxRows
    /\ HasPositivePrice(panel.data[1])
    /\ NonDecreasing(panel.data[1])
    /\ panel.data[1][1] # panel.data[1][MaxRows]
    /\ metric.value.values[1] = Zero
    /\ Lt(metric.value.values[2], Zero)

\* calculate_var was handed a method name it does not know
RejectedMethod == Applied("var") /\ metric.raised = "ValueError"

\* C12: every engine operation applied to a price panel with one asset or
\* with one row returns a result (undefined values being NaN or Inf): none
\* raises.
C12_NoCrashOnSmallPanel ==
    (NRows(panel) >= 1 /\ (NCols(panel) = 1 \/ NRows(panel) = 1))
        => (metric.raised = "none" \/ RejectedMethod)

\* C13: on a price panel with fewer than 2 rows calculate_returns and
\* calculate_log_returns fail with an EmptyInputError instead of returning
\* a result.
C13_ShortPanelRejected ==
    NRows(panel) < 2
        => /\ stage # "returns"
           /\ Applied("log_returns") => metric.raised = "EmptyInputError"

\* C14: calculate_var raises its invalid-method error (a ValueError) for
\* every method name other than 'historical' and 'parametric', and returns
\* one value per asset, without error, for exactly those two names.
C14_VarMethodNames ==
    Applied("var")
        => /\ metric.raised \in {"none", "ValueError"}
           /\ metric.raised = "none" <=> metric.args[2] \in {"historical", "parametric"}
           /\ metric.raised = "none" => metric.value.index = ret_panel.columns

C14_Witness ==
    /\ Applied("var")
    /\ metric.args[2] = "Historical"
    /\ metric.raised = "ValueError"
    /\ NCols(ret_panel) = 2
    /\ NRows(ret_panel) >= 2

\* The eleven metric series of the summary, each computed by its own operation
IndependentMetrics(prices, returns, risk_free_rate) ==
    << calculate_total_return(prices).value,
       calculate_annualized_return(returns).value,
       calculate_volatility(returns, TRUE),
       calculate_downside_deviation(returns, Zero, TRUE),
       calculate_max_drawdown(prices),
       calculate_var(returns, Q(95, 100), "historical").value,
       calculate_cvar(returns, Q(95, 100)),
       calculate_sharpe_ratio(returns, risk_free_rate, TRUE),
       calculate_sortino_ratio(returns, risk_free_rate, Zero, TRUE),
       calculate_calmar_ratio(prices, returns).value,
       calculate_omega_ratio(returns, Zero) >>

\* C17: generate_performance_summary returns one row per asset with all
\* eleven metric columns, each cell holding (rounded) the value its metric
\* computes on its own, also when a metric of some asset is degenerate: the
\* summary of a panel with at least one price row never aborts.
C17_SummaryFullyPopulated ==
    (Applied("performance_summary") /\ NRows(panel) >= 1)
        => /\ metric.raised = "none"
           /\ metric.value.columns = SummaryColumns
           /\ Len(metric.value.columns) = 11
           /\ metric.value.index = ret_panel.columns
           /\ \A m \in DOMAIN metric.value.data : \A k \in DOMAIN ret_panel.columns :
                 metric.value.data[m][k] =
                     Rounded(IndependentMetrics(panel, ret_panel, metric.args[1])[m].values[k], 4)

\* The same positive price on every date
ConstantPositive(col) ==
    \A t \in DOMAIN col : IsFinite(col[t]) /\ col[t][1] > 0 /\ col[t] = col[1]

\* C19: for a single asset whose price is the same positive number on three
\* (or more) dates the engine returns without raising: every return is 0,
\* the volatility is 0 and the Sharpe ratio is non-finite.
C19_ConstantPriceAsset ==
    (NCols(panel) = 1 /\ NRows(panel) >= 3 /\ ConstantPositive(panel.data[1]))
        => /\ stage = "returns"
                  => /\ NRows(ret_panel) = NRows(panel) - 1
                     /\ \A t \in DOMAIN ret_panel.data[1] : ret_panel.data[1][t] = Zero
           /\ Applied("volatility")
                  => /\ metric.raised = "none"
                     /\ metric.value.values[1] = Zero
           /\ Applied("sharpe_ratio")
                  => /\ metric.raised = "none"
                     /\ ~IsFinite(metric.value.values[1])

\* The Sharpe ratio of the constant asset at a zero risk-free rate is 0/0
C19_Witness ==
    /\ NCols(panel) = 1
    /\ NRows(panel) = MaxRows
    /\ ConstantPositive(panel.data[1])
    /\ panel.data[1][1] = Q(MaxPrice, 1)
    /\ Applied("sharpe_ratio")
    /\ metric.args = <<Zero, TRUE>>
    /\ IsNaN(metric.value.values[1])

\* C16: calculate_portfolio_performance reports an error whenever the
\* length of the weight vector differs from the length of the mean-return
\* vector or from the dimension of the covariance matrix: it returns no
\* (return, volatility, Sharpe) triple for mismatched sizes.
C16_MismatchReported ==
    Applied("portfolio_performance")
        => LET weights == metric.args[1]
               mean_returns == metric.args[2]
               cov_matrix == metric.args[3]
           IN  (Len(weights) # Len(mean_returns) \/ Len(weights) # Len(cov_matrix))
                   => metric.raised # "none"

RollingOps == {"rolling_volatility", "rolling_sharpe", "rolling_beta"}

\* The rows t - window + 1 .. t of the return panel, as a panel of their own
WindowFrame(returns, t, window) ==
    Frame(returns.columns, SubSeq(returns.index, t - window + 1, t),
          [c \in DOMAIN returns.data |-> SubSeq(returns.data[c], t - window + 1, t)])

\* The metric of 4.2 / 4.3 / 4.4 computed on those rows alone
WindowMetric(t, window) ==
    IF Applied("rolling_volatility")
    THEN calculate_volatility(WindowFrame(ret_panel, t, window), metric.args[2])
    ELSE IF Applied("rolling_sharpe")
    THEN calculate_sharpe_ratio(WindowFrame(ret_panel, t, window), metric.args[2], TRUE)
    ELSE calculate_beta(WindowFrame(ret_panel, t, window),
                        SubSeq(metric.args[2], t - window + 1, t))

\* C18: a rolling metric (volatility, Sharpe, Beta) with window w returns one
\* row per input row and the input's columns; its first w-1 rows have no
\* value, and each later row is the metric of the trailing w rows ending at
\* that row, and of nothing else.
C18_RollingWindow ==
    (metric.op \in RollingOps)
        => LET window == metric.args[1]
           IN  /\ metric.value.index = ret_panel.index
               /\ metric.value.columns = ret_panel.columns
               /\ \A c \in DOMAIN ret_panel.data : \A t \in 1 .. NRows(ret_panel) :
                     IF t < window
                     THEN IsNaN(metric.value.data[c][t])
                     ELSE metric.value.data[c][t] = WindowMetric(t, window).values[c]

\* A window shorter than the panel: the last row has a value other than the
\* one the whole panel gives
C18_Witness ==
    /\ Applied("rolling_volatility")
    /\ metric.args[1] = 2
    /\ NRows(ret_panel) = MaxRollRows
    /\ NCols(ret_panel) = 2
    /\ IsNaN(metric.value.data[1][1])
    /\ IsFinite(metric.value.data[1][2])
    /\ IsFinite(metric.value.data[1][MaxRollRows])
    /\ metric.value.data[1][MaxRollRows]
           # calculate_volatility(ret_panel, metric.args[2]).values[1]

=============================================================================
